---------------------------- MODULE Spec2Model ----------------------------
(***************************************************************************)
(* Model of Source/PluginCommon/PluginHosting/PluginSplitterMultiband.cpp  *)
(*                                                                         *)
(* Two parts share this module.                                            *)
(*                                                                         *)
(*  - PluginSplitterMultiband: the registry of chains (_chains), the       *)
(*    crossover's band count and per-band chain pointers, and the          *)
(*    operations addBand, removeBand, _onChainRestored and processBlock,   *)
(*    each broken into the statements of its body so that a processBlock   *)
(*    can be placed between any two of them.                               *)
(*                                                                         *)
(*  - FFTProvider: the analysis buffer, the bin outputs, the envelope      *)
(*    followers and the spin lock _fftMutex, with one audio thread         *)
(*    (processBlock) and one control thread (reset, setSampleRate, the     *)
(*    destructor).                                                         *)
(*                                                                         *)
(* The accessors (crossover frequencies, solo flags), prepareToPlay and    *)
(* processBlock with both its steps join the two parts; each has a         *)
(* specification of its own.                                               *)
(***************************************************************************)
EXTENDS Integers, Sequences, FiniteSets, TLC

\* ------------------------------------------------------------------------
\* Constants of the program and bounds of the model
\* ------------------------------------------------------------------------

\* WECore::MONSTR::Parameters::NUM_BANDS.minValue (used at line 121).
MIN_BANDS == 2

\* WECore::MONSTR::Parameters::NUM_BANDS.maxValue (used at line 101).
MAX_BANDS == 4

\* DEFAULT_NUM_CHAINS (lines 75 and 82); also the crossover's band count
\* after construction.
DEFAULT_NUM_CHAINS == 2

\* Largest value of size_t, the type of _chains.size() (a scaled width).
SIZE_MAX == 255

\* FFT_SIZE: length of the analysis window _buffer (line 4), scaled down.
FFT_SIZE == 4

\* NUM_OUTPUTS: number of bins in _outputs (line 5), half the window.
NUM_OUTPUTS == 2

\* Bound: the longest block handed to processBlock, in samples.
MaxBlock == 5

\* Bound: how many processBlock calls the audio thread makes in one run.
MaxCalls == 2

\* Bound: how many PluginChain objects are ever constructed in one run.
MaxChains == 7

\* The null PluginChain pointer.
NoChain == 0

ChainIds == 1..MaxChains

BandIndices == 0..(MAX_BANDS - 1)

\* A crossover of N bands has N - 1 boundaries.
BoundaryIndices == 0..(MAX_BANDS - 2)

\* The valid range of a crossover frequency, in scaled units.
FREQ_MIN == 1

FREQ_MAX == 3

Frequencies == FREQ_MIN..FREQ_MAX

VARIABLES
    chains,          \* _chains: sequence of [chain, isSoloed]
    numBands,        \* _crossover.getNumBands()
    bandChain,       \* the crossover's PluginChain* of each band slot
    destroyed,       \* PluginChain objects whose destructor has run
    prepared,        \* live chains on which prepareToPlay has been called
    listening,       \* live chains on which addListener(this) is in force
    nextChain,       \* identity of the next PluginChain to be constructed
    pc,              \* the control thread's position (a line of the file)
    inHook,          \* addBand() is running as a call from _onChainRestored
    success,         \* the local `success` of addBand / removeBand
    ret,             \* value returned by the last addBand / removeBand:
                     \* "true", "false", or "none" before the first return
    latencyChanged,  \* _onLatencyChange() ran during the current/last call
    ub,              \* outcome of undefined behaviour, "none" if none
    restoring,       \* the restore collaborator's loop is running
    restoreLeft,     \* hook calls the collaborator still has to make
    restoreK,        \* number of persisted chains of the running restore
    restoreN,        \* crossover band count when the restore began
    restored,        \* chains created by the running restore, in order
    netAdds,         \* successful addBand() calls minus successful
                     \* removeBand() calls so far
    initialCount,    \* band count after construction
    routed,          \* chains the processBlock in progress hands audio to
    pbAt             \* control-thread position that processBlock was
                     \* placed at, "none" when no processBlock is running

bandVars == <<chains, numBands, bandChain, destroyed, prepared, listening,
              nextChain, pc, inHook, success, ret, latencyChanged, ub,
              restoring, restoreLeft, restoreK, restoreN, restored,
              netAdds, initialCount, routed, pbAt>>

VARIABLES
    fftMutex,        \* holder of _fftMutex: "free", "audio" or "control"
    apc,             \* the audio thread's position in processBlock
    cpc,             \* the control thread's position in the analyzer
    buffer,          \* _buffer[0 .. FFT_SIZE), as a sequence
    outputs,         \* _outputs[0 .. NUM_OUTPUTS), as a sequence
    envs,            \* _envs: [level, rate] of each envelope follower
    bufferFreed,     \* delete[] _buffer has run
    outputsFreed,    \* delete[] _outputs has run
    block,           \* the stereo block handed to processBlock, the
                     \* caller's buffer
    bufferNumber,    \* the loop variable of line 42
    index,           \* the loop variable of line 67
    cIndex,          \* position of the control thread's loop over _envs
    cRate,           \* the argument of the setSampleRate in progress
    calls            \* processBlock calls made so far

fftVars == <<fftMutex, apc, cpc, buffer, outputs, envs, bufferFreed,
             outputsFreed, block, bufferNumber, index, cIndex, cRate, calls>>

VARIABLES
    crossoverFreq,   \* the crossover's frequency of each boundary slot
    bandSoloed,      \* the crossover's solo flag of each band slot
    lastSet,         \* the last setCrossoverFrequency / setChainSolo call,
                     \* forgotten at the next structural call
    got              \* what the last getCrossoverFrequency / getChainSolo
                     \* returned

accVars == <<crossoverFreq, bandSoloed, lastSet, got>>

VARIABLES
    ppc,             \* position of PluginSplitterMultiband::processBlock
    given,           \* the samples the caller passed to that call
    crossed          \* the samples _crossover.processBlock received

playVars == <<ppc, given, crossed>>

VARIABLES
    prevBuffer,      \* _buffer as it was when the current chunk began
    passes,          \* transforms run by the processBlock in progress
    consumed         \* input positions copied by that call, in order

anaVars == <<prevBuffer, passes, consumed>>

vars == <<bandVars, fftVars, accVars, playVars, anaVars>>

\* ------------------------------------------------------------------------
\* Helpers
\* ------------------------------------------------------------------------

\* _chains.size(); after an erase on an empty vector the end pointer lies
\* before the begin pointer and the unsigned difference wraps.
RegistrySize == IF ub = "corrupt" THEN SIZE_MAX ELSE Len(chains)

\* The chain owned by the last slot, _chains[_chains.size() - 1].chain.
LastChain == chains[Len(chains)].chain

ChainsOf(reg) == {reg[i].chain : i \in 1..Len(reg)}

\* std::make_unique<PluginChain>(...) wrapped with isSoloed = false.
NewSlot == [chain |-> nextChain, isSoloed |-> FALSE]

\* _crossover.setPluginChain(bandIndex, chain)
SetPluginChain(bandIndex, chain) ==
    bandChain' = [bandChain EXCEPT ![bandIndex] = chain]

\* What _crossover.processBlock hands audio to: the chain of every band in
\* [0, numBands).
RoutedNow == [i \in 1..numBands |-> bandChain[i - 1]]

\* The frequency a boundary has in a newly made crossover: the defaults
\* rise with the index.
DefaultFrequency(i) == IF FREQ_MIN + i < FREQ_MAX THEN FREQ_MIN + i ELSE FREQ_MAX

\* No accessor call on record.
NoCall == [op |-> "none", index |-> 0, val |-> 0]

\* ------------------------------------------------------------------------
\* Construction
\* ------------------------------------------------------------------------

InitCommon ==
    /\ destroyed = {}
    /\ prepared = {}
    /\ listening = {}
    /\ pc = "idle"
    /\ inHook = FALSE
    /\ success = FALSE
    /\ ret = "none"
    /\ latencyChanged = FALSE
    /\ ub = "none"
    /\ restoring = FALSE
    /\ restoreLeft = 0
    /\ restoreK = 0
    /\ restoreN = 0
    /\ restored = <<>>
    /\ netAdds = 0
    /\ routed = <<>>
    /\ pbAt = "none"
    /\ crossoverFreq = [i \in BoundaryIndices |-> DefaultFrequency(i)]
    /\ lastSet = NoCall
    /\ got = NoCall
    /\ ppc = "idle"
    /\ given = <<>>
    /\ crossed = <<>>

\* PluginSplitterMultiband(getModulationValueCallback, isStereo): the base
\* class makes DEFAULT_NUM_CHAINS chains, the crossover keeps its default
\* band count and no band is given a chain.
Construct1 ==
    /\ chains = [i \in 1..DEFAULT_NUM_CHAINS |-> [chain |-> i, isSoloed |-> FALSE]]
    /\ numBands = DEFAULT_NUM_CHAINS
    /\ bandChain = [b \in BandIndices |-> NoChain]
    /\ bandSoloed = [b \in BandIndices |-> FALSE]
    /\ nextChain = DEFAULT_NUM_CHAINS + 1
    /\ initialCount = DEFAULT_NUM_CHAINS
    /\ InitCommon

\* PluginSplitterMultiband(chains, getModulationValueCallback, isStereo):
\* the band count is set to _chains.size() and every band is given the
\* chain of the slot with its index.
Construct2 ==
    \E n \in DEFAULT_NUM_CHAINS..MAX_BANDS :
        /\ chains = [i \in 1..n |-> [chain |-> i, isSoloed |-> FALSE]]
        /\ numBands = n
        /\ bandChain = [b \in BandIndices |-> IF b < n THEN b + 1 ELSE NoChain]
        /\ bandSoloed = [b \in BandIndices |->
                             IF b < n THEN chains[b + 1].isSoloed ELSE FALSE]
        /\ nextChain = n + 1
        /\ initialCount = n
        /\ InitCommon

\* Values an uninitialised float of the window may hold.
Garbage == {0, 1}

\* FFTProvider::FFTProvider() (lines 3-15): both arrays are allocated, the
\* first NUM_OUTPUTS elements of each are filled with 0 (lines 7-8), the
\* rest of _buffer keeps what the allocation held; the followers start at
\* rest.
ConstructFFT ==
    /\ fftMutex = "free"
    /\ apc = "idle"
    /\ cpc = "idle"
    /\ buffer \in {b \in [1..FFT_SIZE -> Garbage] :
                       \A i \in 1..NUM_OUTPUTS : b[i] = 0}
    /\ outputs = [i \in 1..NUM_OUTPUTS |-> 0]
    /\ envs = [i \in 1..NUM_OUTPUTS |-> [level |-> 0, rate |-> 0]]
    /\ bufferFreed = FALSE
    /\ outputsFreed = FALSE
    /\ block = <<>>
    /\ bufferNumber = 0
    /\ index = 0
    /\ cIndex = 0
    /\ cRate = 0
    /\ calls = 0
    /\ prevBuffer = <<>>
    /\ passes = 0
    /\ consumed = <<>>

Init == (Construct1 \/ Construct2) /\ ConstructFFT


\* ------------------------------------------------------------------------
\* The crossover collaborator (its control plane, as the file uses it)
\* ------------------------------------------------------------------------

\* _crossover.addBand(): one more band.  Whether the new band slot starts
\* with no chain or still holds the pointer a removed band left there is
\* not decided by this file: both are allowed.
CrossoverAddBand ==
    /\ numBands' = numBands + 1
    /\ \E p \in {NoChain, bandChain[numBands]} : SetPluginChain(numBands, p)

\* _crossover.removeBand(): one band fewer; the slot's pointer is not
\* looked at again until the band is added back.
CrossoverRemoveBand ==
    /\ numBands' = numBands - 1
    /\ UNCHANGED bandChain

\* ------------------------------------------------------------------------
\* addBand()  (lines 98-116)
\* ------------------------------------------------------------------------

\* The control thread takes its steps while no processBlock is running:
\* the two are serialised, a processBlock falls between two steps.
Quiet == pbAt = "none"

histVars == <<netAdds, initialCount>>
restoreVars == <<restoring, restoreLeft, restoreK, restoreN>>
audioVars == <<routed, pbAt>>

\* A faulty variant of CanAddBand: the bound test is off by one.
CanAddBand_OffByOne == numBands <= MAX_BANDS

\* line 101: _crossover.getNumBands() < NUM_BANDS.maxValue
CanAddBand == numBands < MAX_BANDS

\* line 121: _crossover.getNumBands() > NUM_BANDS.minValue
CanRemoveBand == numBands > MIN_BANDS

\* Where a finished addBand() continues: in _onChainRestored when that
\* called it, else in the caller of the public operation.
AfterAddBand == IF inHook THEN "c184" ELSE "idle"

\* The call itself: bool success {false};
AddBandCall ==
    /\ pc = "idle" /\ ub = "none" /\ ~restoring /\ Quiet
    /\ nextChain <= MaxChains
    /\ pc' = "a101"
    /\ inHook' = FALSE
    /\ success' = FALSE
    /\ latencyChanged' = FALSE
    /\ UNCHANGED <<chains, numBands, bandChain, destroyed, prepared,
                   listening, nextChain, ret, ub, restored>>
    /\ UNCHANGED <<histVars, restoreVars, audioVars>>
    /\ lastSet' = NoCall
    /\ UNCHANGED <<crossoverFreq, bandSoloed, got>>
    /\ UNCHANGED <<fftVars, playVars, anaVars>>

\* line 101, and lines 115-116 when the test fails: return success (false).
AddBandGuard ==
    /\ pc = "a101" /\ ub = "none" /\ Quiet
    /\ IF CanAddBand
       THEN /\ pc' = "a103"
            /\ UNCHANGED ret
       ELSE /\ pc' = AfterAddBand
            /\ ret' = "false"
    /\ UNCHANGED <<chains, numBands, bandChain, destroyed, prepared,
                   listening, nextChain, inHook, success, latencyChanged,
                   ub, restored>>
    /\ UNCHANGED <<histVars, restoreVars, audioVars>>
    /\ UNCHANGED <<fftVars, accVars, playVars, anaVars>>

\* line 103: _chains.emplace_back(std::make_unique<PluginChain>(...), false)
AddBandEmplace ==
    /\ pc = "a103" /\ ub = "none" /\ Quiet
    /\ chains' = Append(chains, NewSlot)
    /\ nextChain' = nextChain + 1
    /\ restored' = IF restoring THEN Append(restored, nextChain) ELSE restored
    /\ pc' = "a104"
    /\ UNCHANGED <<numBands, bandChain, destroyed, prepared, listening,
                   inHook, success, ret, latencyChanged, ub>>
    /\ UNCHANGED <<histVars, restoreVars, audioVars>>
    /\ UNCHANGED <<fftVars, accVars, playVars, anaVars>>

\* line 104: _crossover.addBand()
AddBandCrossover ==
    /\ pc = "a104" /\ ub = "none" /\ Quiet
    /\ CrossoverAddBand
    /\ pc' = "a107"
    /\ UNCHANGED <<chains, destroyed, prepared, listening, nextChain,
                   inHook, success, ret, latencyChanged, ub, restored>>
    /\ UNCHANGED <<histVars, restoreVars, audioVars>>
    /\ UNCHANGED <<fftVars, accVars, playVars, anaVars>>

\* lines 106-107: newChain->prepareToPlay(getSampleRate(), getBlockSize())
AddBandPrepare ==
    /\ pc = "a107" /\ ub = "none" /\ Quiet
    /\ prepared' = prepared \cup {LastChain}
    /\ pc' = "a108"
    /\ UNCHANGED <<chains, numBands, bandChain, destroyed, listening,
                   nextChain, inHook, success, ret, latencyChanged, ub,
                   restored>>
    /\ UNCHANGED <<histVars, restoreVars, audioVars>>
    /\ UNCHANGED <<fftVars, accVars, playVars, anaVars>>

\* line 108: _crossover.setPluginChain(_crossover.getNumBands() - 1, newChain)
AddBandSetChain ==
    /\ pc = "a108" /\ ub = "none" /\ Quiet
    /\ SetPluginChain(numBands - 1, LastChain)
    /\ pc' = "a110"
    /\ UNCHANGED <<chains, numBands, destroyed, prepared, listening,
                   nextChain, inHook, success, ret, latencyChanged, ub,
                   restored>>
    /\ UNCHANGED <<histVars, restoreVars, audioVars>>
    /\ UNCHANGED <<fftVars, accVars, playVars, anaVars>>

\* line 110: newChain->addListener(this)
AddBandListen ==
    /\ pc = "a110" /\ ub = "none" /\ Quiet
    /\ listening' = listening \cup {LastChain}
    /\ pc' = "a111"
    /\ UNCHANGED <<chains, numBands, bandChain, destroyed, prepared,
                   nextChain, inHook, success, ret, latencyChanged, ub,
                   restored>>
    /\ UNCHANGED <<histVars, restoreVars, audioVars>>
    /\ UNCHANGED <<fftVars, accVars, playVars, anaVars>>

\* lines 111-115: _onLatencyChange(); success = true; return success;
\* (the local goes out of scope with the return)
AddBandFinish ==
    /\ pc = "a111" /\ ub = "none" /\ Quiet
    /\ latencyChanged' = TRUE
    /\ success' = FALSE
    /\ ret' = "true"
    /\ netAdds' = netAdds + 1
    /\ pc' = AfterAddBand
    /\ UNCHANGED <<chains, numBands, bandChain, destroyed, prepared,
                   listening, nextChain, inHook, ub, restored>>
    /\ UNCHANGED <<initialCount, restoreVars, audioVars>>
    /\ UNCHANGED <<fftVars, accVars, playVars, anaVars>>

\* ------------------------------------------------------------------------
\* removeBand()  (lines 118-132)
\* ------------------------------------------------------------------------

\* The call itself: bool success {false};
RemoveBandCall ==
    /\ pc = "idle" /\ ub = "none" /\ ~restoring /\ Quiet
    /\ pc' = "r121"
    /\ success' = FALSE
    /\ latencyChanged' = FALSE
    /\ UNCHANGED <<chains, numBands, bandChain, destroyed, prepared,
                   listening, nextChain, inHook, ret, ub, restored>>
    /\ UNCHANGED <<histVars, restoreVars, audioVars>>
    /\ lastSet' = NoCall
    /\ UNCHANGED <<crossoverFreq, bandSoloed, got>>
    /\ UNCHANGED <<fftVars, playVars, anaVars>>

\* line 121, and lines 131-132 when the test fails: return success (false).
RemoveBandGuard ==
    /\ pc = "r121" /\ ub = "none" /\ Quiet
    /\ IF CanRemoveBand
       THEN /\ pc' = "r123"
            /\ UNCHANGED ret
       ELSE /\ pc' = "idle"
            /\ ret' = "false"
    /\ UNCHANGED <<chains, numBands, bandChain, destroyed, prepared,
                   listening, nextChain, inHook, success, latencyChanged,
                   ub, restored>>
    /\ UNCHANGED <<histVars, restoreVars, audioVars>>
    /\ UNCHANGED <<fftVars, accVars, playVars, anaVars>>

\* line 123: _crossover.removeBand()
RemoveBandCrossover ==
    /\ pc = "r123" /\ ub = "none" /\ Quiet
    /\ CrossoverRemoveBand
    /\ pc' = "r124"
    /\ UNCHANGED <<chains, destroyed, prepared, listening, nextChain,
                   inHook, success, ret, latencyChanged, ub, restored>>
    /\ UNCHANGED <<histVars, restoreVars, audioVars>>
    /\ UNCHANGED <<fftVars, accVars, playVars, anaVars>>

\* line 124: _chains[_chains.size() - 1].chain->removeListener(this).
\* On an empty registry the index wraps and the slot read is not a slot:
\* the call either faults or returns having touched nothing of the model.
RemoveBandUnlisten ==
    /\ pc = "r124" /\ ub = "none" /\ Quiet
    /\ IF Len(chains) > 0
       THEN /\ listening' = listening \ {LastChain}
            /\ pc' = "r125"
            /\ UNCHANGED ub
       ELSE /\ UNCHANGED listening
            /\ \E outcome \in {"crash", "none"} :
                   /\ ub' = outcome
                   /\ pc' = IF outcome = "none" THEN "r125" ELSE "halt"
    /\ UNCHANGED <<chains, numBands, bandChain, destroyed, prepared,
                   nextChain, inHook, success, ret, latencyChanged,
                   restored>>
    /\ UNCHANGED <<histVars, restoreVars, audioVars>>
    /\ UNCHANGED <<fftVars, accVars, playVars, anaVars>>

\* A faulty variant of RemoveBandErase: the slot is not erased.
RemoveBandErase_KeepsSlot ==
    /\ pc = "r125" /\ ub = "none" /\ Quiet
    /\ pc' = "r127"
    /\ UNCHANGED <<chains, destroyed, prepared, ub>>
    /\ UNCHANGED <<numBands, bandChain, listening, nextChain, inHook,
                   success, ret, latencyChanged, restored>>
    /\ UNCHANGED <<histVars, restoreVars, audioVars>>
    /\ UNCHANGED <<fftVars, accVars, playVars, anaVars>>

\* line 125: _chains.erase(_chains.begin() + _chains.size() - 1): the last
\* slot is dropped and the chain it owns is destroyed.  On an empty
\* registry the iterator lies before begin(): the erase either faults or
\* leaves the vector with its end before its begin.
RemoveBandErase ==
    /\ pc = "r125" /\ ub = "none" /\ Quiet
    /\ IF Len(chains) > 0
       THEN /\ chains' = SubSeq(chains, 1, Len(chains) - 1)
            /\ destroyed' = destroyed \cup {LastChain}
            /\ prepared' = prepared \ {LastChain}
            /\ pc' = "r127"
            /\ UNCHANGED ub
       ELSE /\ UNCHANGED <<chains, destroyed, prepared>>
            /\ ub' \in {"crash", "corrupt"}
            /\ pc' = "halt"
    /\ UNCHANGED <<numBands, bandChain, listening, nextChain, inHook,
                   success, ret, latencyChanged, restored>>
    /\ UNCHANGED <<histVars, restoreVars, audioVars>>
    /\ UNCHANGED <<fftVars, accVars, playVars, anaVars>>

\* lines 127-131: _onLatencyChange(); success = true; return success;
RemoveBandFinish ==
    /\ pc = "r127" /\ ub = "none" /\ Quiet
    /\ latencyChanged' = TRUE
    /\ success' = FALSE
    /\ ret' = "true"
    /\ netAdds' = netAdds - 1
    /\ pc' = "idle"
    /\ UNCHANGED <<chains, numBands, bandChain, destroyed, prepared,
                   listening, nextChain, inHook, ub, restored>>
    /\ UNCHANGED <<initialCount, restoreVars, audioVars>>
    /\ UNCHANGED <<fftVars, accVars, playVars, anaVars>>

\* ------------------------------------------------------------------------
\* Restore: the collaborator's clear and _onChainRestored()  (lines 168-185)
\* ------------------------------------------------------------------------

\* PluginSplitter::restoreFromXml() begins: every chain is deleted (the
\* comment at lines 169-171), then the hook is called once per persisted
\* chain.  k is the number of persisted chains.
RestoreBegin(k) ==
    /\ pc = "idle" /\ ub = "none" /\ ~restoring /\ Quiet
    /\ chains' = <<>>
    /\ destroyed' = destroyed \cup ChainsOf(chains)
    /\ prepared' = prepared \ ChainsOf(chains)
    /\ listening' = listening \ ChainsOf(chains)
    /\ restoring' = TRUE
    /\ restoreLeft' = k
    /\ restoreK' = k
    /\ restoreN' = numBands
    /\ restored' = <<>>
    /\ UNCHANGED <<numBands, bandChain, nextChain, pc, inHook, success,
                   ret, latencyChanged, ub>>
    /\ UNCHANGED <<histVars, audioVars>>
    /\ lastSet' = NoCall
    /\ UNCHANGED <<crossoverFreq, bandSoloed, got>>
    /\ UNCHANGED <<fftVars, playVars, anaVars>>

\* _onChainRestored() is called: by the collaborator's loop, or on its own.
OnChainRestoredCall ==
    /\ pc = "idle" /\ ub = "none" /\ Quiet
    /\ restoring => restoreLeft > 0
    /\ nextChain <= MaxChains
    /\ pc' = "c173"
    /\ latencyChanged' = FALSE
    /\ UNCHANGED <<chains, numBands, bandChain, destroyed, prepared,
                   listening, nextChain, inHook, success, ret, ub,
                   restored>>
    /\ UNCHANGED <<histVars, restoreVars, audioVars>>
    /\ lastSet' = NoCall
    /\ UNCHANGED <<crossoverFreq, bandSoloed, got>>
    /\ UNCHANGED <<fftVars, playVars, anaVars>>

\* line 173 true, line 175: addBand() is called (bool success {false}).
OnChainRestoredAddBand ==
    /\ pc = "c173" /\ ub = "none" /\ Quiet
    /\ RegistrySize >= numBands
    /\ pc' = "a101"
    /\ inHook' = TRUE
    /\ success' = FALSE
    /\ UNCHANGED <<chains, numBands, bandChain, destroyed, prepared,
                   listening, nextChain, ret, latencyChanged, ub, restored>>
    /\ UNCHANGED <<histVars, restoreVars, audioVars>>
    /\ UNCHANGED <<fftVars, accVars, playVars, anaVars>>

\* A faulty variant of OnChainRestoredBind: the crossover's last band is pointed at
\* the new chain, instead of the band with the new slot's index.
OnChainRestoredBind_LastBand ==
    /\ pc = "c173" /\ ub = "none" /\ Quiet
    /\ ~(RegistrySize >= numBands)
    /\ chains' = Append(chains, NewSlot)
    /\ nextChain' = nextChain + 1
    /\ SetPluginChain(numBands - 1, nextChain)
    /\ restored' = IF restoring THEN Append(restored, nextChain) ELSE restored
    /\ pc' = "c184"
    /\ UNCHANGED <<numBands, destroyed, prepared, listening, inHook,
                   success, ret, latencyChanged, ub>>
    /\ UNCHANGED <<histVars, restoreVars, audioVars>>
    /\ UNCHANGED <<fftVars, accVars, playVars, anaVars>>

\* A faulty variant of OnChainRestoredBind: the first band is pointed at the
\* new chain, whatever the new slot's index.
OnChainRestoredBind_FirstBand ==
    /\ pc = "c173" /\ ub = "none" /\ Quiet
    /\ ~(RegistrySize >= numBands)
    /\ chains' = Append(chains, NewSlot)
    /\ nextChain' = nextChain + 1
    /\ SetPluginChain(0, nextChain)
    /\ restored' = IF restoring THEN Append(restored, nextChain) ELSE restored
    /\ pc' = "c184"
    /\ UNCHANGED <<numBands, destroyed, prepared, listening, inHook,
                   success, ret, latencyChanged, ub>>
    /\ UNCHANGED <<histVars, restoreVars, audioVars>>
    /\ UNCHANGED <<fftVars, accVars, playVars, anaVars>>

\* line 173 false, lines 180-182: a chain is created and the band with the
\* new slot's index is pointed at it.
OnChainRestoredBind ==
    /\ pc = "c173" /\ ub = "none" /\ Quiet
    /\ ~(RegistrySize >= numBands)
    /\ chains' = Append(chains, NewSlot)
    /\ nextChain' = nextChain + 1
    /\ SetPluginChain(Len(chains), nextChain)
    /\ restored' = IF restoring THEN Append(restored, nextChain) ELSE restored
    /\ pc' = "c184"
    /\ UNCHANGED <<numBands, destroyed, prepared, listening, inHook,
                   success, ret, latencyChanged, ub>>
    /\ UNCHANGED <<histVars, restoreVars, audioVars>>
    /\ UNCHANGED <<fftVars, accVars, playVars, anaVars>>

\* line 185: _onChainRestored() returns; the collaborator's loop has one
\* chain fewer to restore.
OnChainRestoredReturn ==
    /\ pc = "c184" /\ ub = "none" /\ Quiet
    /\ pc' = "idle"
    /\ inHook' = FALSE
    /\ restoreLeft' = IF restoring THEN restoreLeft - 1 ELSE restoreLeft
    /\ UNCHANGED <<chains, numBands, bandChain, destroyed, prepared,
                   listening, nextChain, success, ret, latencyChanged, ub,
                   restored>>
    /\ UNCHANGED <<histVars, restoring, restoreK, restoreN, audioVars>>
    /\ UNCHANGED <<fftVars, accVars, playVars, anaVars>>

\* The collaborator's loop is over: the restore is complete.
RestoreEnd ==
    /\ pc = "idle" /\ ub = "none" /\ Quiet
    /\ restoring /\ restoreLeft = 0
    /\ restoring' = FALSE
    /\ restoreK' = 0
    /\ restoreN' = 0
    /\ restored' = <<>>
    /\ UNCHANGED <<chains, numBands, bandChain, destroyed, prepared,
                   listening, nextChain, pc, inHook, success, ret,
                   latencyChanged, ub, restoreLeft>>
    /\ UNCHANGED <<histVars, audioVars>>
    /\ UNCHANGED <<fftVars, accVars, playVars, anaVars>>

\* ------------------------------------------------------------------------
\* Accessors: crossover frequencies and solo flags  (lines 138-153)
\* ------------------------------------------------------------------------

\* _crossover.setCrossoverFrequency(idx, val): the boundary takes the
\* value, and a boundary the value has passed is moved along with it, so
\* that the boundaries stay in order.
CrossoverSetFrequency(idx, val) ==
    crossoverFreq' = [i \in BoundaryIndices |->
                         IF i = idx THEN val
                         ELSE IF i < idx /\ crossoverFreq[i] > val THEN val
                         ELSE IF i > idx /\ crossoverFreq[i] < val THEN val
                         ELSE crossoverFreq[i]]

\* _crossover.getCrossoverFrequency(idx)
CrossoverGetFrequency(idx) == crossoverFreq[idx]

\* _crossover.setIsSoloed(bandIndex, val)
CrossoverSetIsSoloed(bandIndex, val) ==
    bandSoloed' = [bandSoloed EXCEPT ![bandIndex] = val]

\* _crossover.getIsSoloed(bandIndex)
CrossoverGetIsSoloed(bandIndex) == bandSoloed[bandIndex]

\* The accessors are called from the control thread, between its other
\* calls.
ControlIdle == pc = "idle" /\ ub = "none" /\ ~restoring /\ Quiet

\* lines 138-140: setCrossoverFrequency(idx, val)
SetCrossoverFrequency(idx, val) ==
    /\ ControlIdle
    /\ idx < numBands - 1
    /\ CrossoverSetFrequency(idx, val)
    /\ lastSet' = [op |-> "frequency", index |-> idx, val |-> val]
    /\ got' = NoCall
    /\ UNCHANGED bandSoloed
    /\ UNCHANGED <<bandVars, fftVars, playVars, anaVars>>

\* A faulty variant of GetCrossoverFrequency: the index is not passed on,
\* the first boundary is read.
GetCrossoverFrequency_First(idx) ==
    /\ ControlIdle
    /\ idx < numBands - 1
    /\ got' = [op |-> "frequency", index |-> idx,
               val |-> CrossoverGetFrequency(0)]
    /\ UNCHANGED <<crossoverFreq, bandSoloed, lastSet>>
    /\ UNCHANGED <<bandVars, fftVars, playVars, anaVars>>

\* lines 142-144: getCrossoverFrequency(idx)
GetCrossoverFrequency(idx) ==
    /\ ControlIdle
    /\ idx < numBands - 1
    /\ got' = [op |-> "frequency", index |-> idx,
               val |-> CrossoverGetFrequency(idx)]
    /\ UNCHANGED <<crossoverFreq, bandSoloed, lastSet>>
    /\ UNCHANGED <<bandVars, fftVars, playVars, anaVars>>

\* A faulty variant of SetChainSolo: the flag is also written to the
\* registry's slot.
SetChainSolo_WritesRegistry(chainNumber, val) ==
    /\ ControlIdle
    /\ chainNumber < numBands
    /\ CrossoverSetIsSoloed(chainNumber, val)
    /\ chains' = [i \in 1..Len(chains) |->
                     IF i = chainNumber + 1
                     THEN [chains[i] EXCEPT !.isSoloed = val]
                     ELSE chains[i]]
    /\ lastSet' = [op |-> "solo", index |-> chainNumber, val |-> val]
    /\ got' = NoCall
    /\ UNCHANGED crossoverFreq
    /\ UNCHANGED <<numBands, bandChain, destroyed, prepared, listening,
                   nextChain, pc, inHook, success, ret, latencyChanged, ub,
                   restored>>
    /\ UNCHANGED <<histVars, restoreVars, audioVars>>
    /\ UNCHANGED <<fftVars, playVars, anaVars>>

\* lines 146-149: setChainSolo(chainNumber, val)
SetChainSolo(chainNumber, val) ==
    /\ ControlIdle
    /\ chainNumber < numBands
    /\ CrossoverSetIsSoloed(chainNumber, val)
    /\ lastSet' = [op |-> "solo", index |-> chainNumber, val |-> val]
    /\ got' = NoCall
    /\ UNCHANGED crossoverFreq
    /\ UNCHANGED <<bandVars, fftVars, playVars, anaVars>>

\* lines 151-153: getChainSolo(chainNumber)
GetChainSolo(chainNumber) ==
    /\ ControlIdle
    /\ chainNumber < numBands
    /\ got' = [op |-> "solo", index |-> chainNumber,
               val |-> CrossoverGetIsSoloed(chainNumber)]
    /\ UNCHANGED <<crossoverFreq, bandSoloed, lastSet>>
    /\ UNCHANGED <<bandVars, fftVars, playVars, anaVars>>

\* ------------------------------------------------------------------------
\* processBlock  (lines 163-166), the crossover step
\* ------------------------------------------------------------------------

\* line 165: _crossover.processBlock(buffer): every band in [0, numBands)
\* hands its samples to the chain its slot points at.  The call is placed
\* at any position of the control thread and runs to its end there.
SplitterProcessBlock ==
    /\ ub = "none" /\ pbAt = "none"
    /\ routed' = RoutedNow
    /\ pbAt' = pc
    /\ UNCHANGED <<chains, numBands, bandChain, destroyed, prepared,
                   listening, nextChain, pc, inHook, success, ret,
                   latencyChanged, ub, restored>>
    /\ UNCHANGED <<histVars, restoreVars>>
    /\ UNCHANGED <<fftVars, accVars, playVars, anaVars>>

\* line 166: processBlock returns.
SplitterProcessBlockReturn ==
    /\ ub = "none" /\ pbAt # "none"
    /\ routed' = <<>>
    /\ pbAt' = "none"
    /\ UNCHANGED <<chains, numBands, bandChain, destroyed, prepared,
                   listening, nextChain, pc, inHook, success, ret,
                   latencyChanged, ub, restored>>
    /\ UNCHANGED <<histVars, restoreVars>>
    /\ UNCHANGED <<fftVars, accVars, playVars, anaVars>>

\* ------------------------------------------------------------------------
\* FFTProvider: helpers
\* ------------------------------------------------------------------------

Abs(x) == IF x < 0 THEN -x ELSE x

Min(a, b) == IF a < b THEN a ELSE b

\* A stereo block of n samples, as a sequence of <<left, right>>: silence,
\* or a tone whose two channels differ.
MakeBlock(n, kind) ==
    [j \in 1..n |-> IF kind = "silence"
                     THEN <<0, 0>>
                     ELSE <<2 * ((j % 2) + 1), 2 * (j % 2)>>]

BlockKinds == {"silence", "tone"}

\* A faulty variant of NumBuffersRequired: the quotient is rounded down.
NumBuffersRequired_Floor(n) == n \div FFT_SIZE

\* line 38-40: ceil(getNumSamples() / FFT_SIZE)
NumBuffersRequired(n) == (n + FFT_SIZE - 1) \div FFT_SIZE

\* lines 44-47: std::min(numSamplesRemaining, FFT_SIZE)
NumSamplesToCopy(n, bufNo) == Min(n - bufNo * FFT_SIZE, FFT_SIZE)

\* line 56: FloatVectorOperations::copy(_buffer, fillStart, numSamplesToCopy)
\* copies the last `count` elements of the window to its front.  The two
\* ranges overlap when count > FFT_SIZE / 2, where the copy's direction is
\* not fixed: `ascending` tells which one the build took.
RECURSIVE CopyFrom(_, _, _, _)
CopyFrom(b, count, i, ascending) ==
    IF i > count
    THEN b
    ELSE LET k == IF ascending THEN i ELSE count + 1 - i
         IN  CopyFrom([b EXCEPT ![k] = b[FFT_SIZE - count + k]],
                      count, i + 1, ascending)

\* lines 59-60: add the left and right samples of the chunk into the tail
\* of the window and halve them.
FillTail(b, blk, bufNo, count) ==
    [i \in 1..FFT_SIZE |->
        IF i > FFT_SIZE - count
        THEN LET s == blk[bufNo * FFT_SIZE + (i - (FFT_SIZE - count))]
             IN  (s[1] + s[2]) \div 2
        ELSE b[i]]

\* line 63: _fft.performFrequencyOnlyForwardTransform(_buffer): the window
\* is replaced, in place, by the magnitudes of its discrete Fourier
\* transform (here of FFT_SIZE = 4 points, |re| + |im| for the magnitude).
FrequencyOnlyForwardTransform(b) ==
    LET re1 == b[1] - b[3]
        im1 == b[4] - b[2]
    IN  << Abs(b[1] + b[2] + b[3] + b[4]),
           Abs(re1) + Abs(im1),
           Abs(b[1] - b[2] + b[3] - b[4]),
           Abs(re1) + Abs(im1) >>

\* WECore's envelope follower, getNextOutput(in): the level rises to the
\* input at once (attack 0.1 ms) and falls towards it slowly (release 2 ms).
EnvNextOutput(env, in) ==
    IF in > env.level THEN in
    ELSE IF in < env.level THEN env.level - ((env.level - in + 1) \div 2)
    ELSE env.level

SampleRates == {1, 2}


\* ------------------------------------------------------------------------
\* FFTProvider::processBlock  (lines 35-72), the audio thread
\* ------------------------------------------------------------------------

\* A faulty variant of AudioTryLock: isLocked() is not tested, the analysis runs
\* whether or not the lock was obtained.
AudioTryLock_Unchecked(n, kind) ==
    /\ apc = "idle"
    /\ cpc # "dead"
    /\ calls < MaxCalls
    /\ calls' = calls + 1
    /\ block' = MakeBlock(n, kind)
    /\ fftMutex' = IF fftMutex = "free" THEN "audio" ELSE fftMutex
    /\ apc' = "loop"
    /\ bufferNumber' = 0
    /\ passes' = 0
    /\ consumed' = <<>>
    /\ UNCHANGED <<cpc, buffer, outputs, envs, bufferFreed, outputsFreed,
                   index, cIndex, cRate, prevBuffer>>
    /\ UNCHANGED <<bandVars, accVars, playVars>>

\* A faulty variant of AudioTryLock: a blocking AudioSpinLock is used, the call
\* waits until the lock is free.
AudioTryLock_Blocking(n, kind) ==
    \/ /\ apc = "idle"
       /\ cpc # "dead"
       /\ calls < MaxCalls
       /\ calls' = calls + 1
       /\ block' = MakeBlock(n, kind)
       /\ apc' = "wait"
       /\ bufferNumber' = 0
       /\ passes' = 0
       /\ consumed' = <<>>
       /\ UNCHANGED <<fftMutex, cpc, buffer, outputs, envs, bufferFreed,
                      outputsFreed, index, cIndex, cRate, prevBuffer>>
       /\ UNCHANGED <<bandVars, accVars, playVars>>
    \/ /\ apc = "wait"
       /\ fftMutex = "free"
       /\ fftMutex' = "audio"
       /\ apc' = "loop"
       /\ UNCHANGED <<cpc, buffer, outputs, envs, bufferFreed, outputsFreed,
                      block, bufferNumber, index, cIndex, cRate, calls>>
       /\ UNCHANGED <<bandVars, accVars, playVars, anaVars>>

\* line 36: WECore::AudioSpinTryLock lock(_fftMutex); line 37: isLocked().
\* The first statement of the call: the lock is taken if it is free, and
\* the call goes on to its end without it if it is not.
TryLock(blk) ==
    /\ apc = "idle"
    /\ cpc # "dead"
    /\ calls < MaxCalls
    /\ calls' = calls + 1
    /\ block' = blk
    /\ IF fftMutex = "free"
       THEN /\ fftMutex' = "audio"
            /\ apc' = "loop"
       ELSE /\ UNCHANGED fftMutex
            /\ apc' = "skip"
    /\ bufferNumber' = 0
    /\ passes' = 0
    /\ consumed' = <<>>
    /\ UNCHANGED <<cpc, buffer, outputs, envs, bufferFreed, outputsFreed,
                   index, cIndex, cRate, prevBuffer>>

\* FFTProvider::processBlock(buffer) called on its own with a block of n
\* samples.
AudioTryLock(n, kind) ==
    /\ TryLock(MakeBlock(n, kind))
    /\ UNCHANGED <<bandVars, accVars, playVars>>

\* The positions of the input block that chunk bufNo reads, in order.
ChunkPositions(bufNo, count) == [j \in 1..count |-> bufNo * FFT_SIZE + j]

\* A faulty variant of AudioChunk: the two channels are averaged in the
\* caller's buffer before they are copied to the window.
AudioChunk_InPlace ==
    /\ apc = "loop"
    /\ bufferNumber < NumBuffersRequired(Len(block))
    /\ LET count == NumSamplesToCopy(Len(block), bufferNumber)
       IN  /\ \E ascending \in BOOLEAN :
                  buffer' = FillTail(CopyFrom(buffer, count, 1, ascending),
                                     block, bufferNumber, count)
           /\ consumed' = consumed \o ChunkPositions(bufferNumber, count)
           /\ block' = [j \in 1..Len(block) |->
                            IF /\ j > bufferNumber * FFT_SIZE
                               /\ j <= bufferNumber * FFT_SIZE + count
                            THEN << (block[j][1] + block[j][2]) \div 2,
                                    (block[j][1] + block[j][2]) \div 2 >>
                            ELSE block[j]]
    /\ prevBuffer' = buffer
    /\ apc' = "fft"
    /\ UNCHANGED <<fftMutex, cpc, outputs, envs, bufferFreed, outputsFreed,
                   bufferNumber, index, cIndex, cRate, calls, passes>>
    /\ UNCHANGED <<bandVars, accVars, playVars>>

\* line 42 true, lines 44-60: one chunk is moved into the window.  The
\* input block is only read (lines 49-50 take read pointers).
AudioChunk ==
    /\ apc = "loop"
    /\ bufferNumber < NumBuffersRequired(Len(block))
    /\ LET count == NumSamplesToCopy(Len(block), bufferNumber)
       IN  /\ \E ascending \in BOOLEAN :
                  buffer' = FillTail(CopyFrom(buffer, count, 1, ascending),
                                     block, bufferNumber, count)
           /\ consumed' = consumed \o ChunkPositions(bufferNumber, count)
    /\ prevBuffer' = buffer
    /\ apc' = "fft"
    /\ UNCHANGED <<fftMutex, cpc, outputs, envs, bufferFreed, outputsFreed,
                   block, bufferNumber, index, cIndex, cRate, calls, passes>>
    /\ UNCHANGED <<bandVars, accVars, playVars>>

\* line 63: the window is transformed in place.
AudioTransform ==
    /\ apc = "fft"
    /\ buffer' = FrequencyOnlyForwardTransform(buffer)
    /\ passes' = passes + 1
    /\ prevBuffer' = <<>>
    /\ index' = 0
    /\ apc' = "env"
    /\ UNCHANGED <<fftMutex, cpc, outputs, envs, bufferFreed, outputsFreed,
                   block, bufferNumber, cIndex, cRate, calls, consumed>>
    /\ UNCHANGED <<bandVars, accVars, playVars>>

\* line 67 true, line 68: one bin goes through its envelope follower.
AudioEnv ==
    /\ apc = "env"
    /\ index < NUM_OUTPUTS
    /\ LET out == EnvNextOutput(envs[index + 1], buffer[index + 1])
       IN  /\ envs' = [envs EXCEPT ![index + 1].level = out]
           /\ outputs' = [outputs EXCEPT ![index + 1] = out]
    /\ index' = index + 1
    /\ UNCHANGED <<fftMutex, apc, cpc, buffer, bufferFreed, outputsFreed,
                   block, bufferNumber, cIndex, cRate, calls>>
    /\ UNCHANGED <<bandVars, accVars, playVars, anaVars>>

\* line 67 false: the chunk is done, back to line 42.
AudioEnvDone ==
    /\ apc = "env"
    /\ ~(index < NUM_OUTPUTS)
    /\ bufferNumber' = bufferNumber + 1
    /\ apc' = "loop"
    /\ UNCHANGED <<fftMutex, cpc, buffer, outputs, envs, bufferFreed,
                   outputsFreed, block, index, cIndex, cRate, calls>>
    /\ UNCHANGED <<bandVars, accVars, playVars, anaVars>>

\* line 42 false, lines 71-72: the lock is released and the call returns.
AudioUnlock ==
    /\ apc = "loop"
    /\ ~(bufferNumber < NumBuffersRequired(Len(block)))
    /\ fftMutex' = "free"
    /\ apc' = "idle"
    /\ bufferNumber' = 0
    /\ index' = 0
    /\ UNCHANGED <<block, cpc, buffer, outputs, envs, bufferFreed, outputsFreed,
                   cIndex, cRate, calls>>
    /\ UNCHANGED <<bandVars, accVars, playVars, anaVars>>

\* line 37 false, line 72: the call returns without having held the lock.
AudioSkip ==
    /\ apc = "skip"
    /\ apc' = "idle"
    /\ UNCHANGED <<block, fftMutex, cpc, buffer, outputs, envs, bufferFreed,
                   outputsFreed, bufferNumber, index, cIndex, cRate, calls>>
    /\ UNCHANGED <<bandVars, accVars, playVars, anaVars>>

\* ------------------------------------------------------------------------
\* FFTProvider::setSampleRate, reset, ~FFTProvider, the control thread
\* ------------------------------------------------------------------------

\* line 23: setSampleRate(sampleRate) is called.
SetSampleRateCall(rate) ==
    /\ cpc = "idle"
    /\ cpc' = "s24"
    /\ cIndex' = 0
    /\ cRate' = rate
    /\ UNCHANGED <<fftMutex, apc, buffer, outputs, envs, bufferFreed,
                   outputsFreed, block, bufferNumber, index, calls>>
    /\ UNCHANGED <<bandVars, accVars, playVars, anaVars>>

\* lines 24-26: env.setSampleRate(sampleRate) for the next follower, or
\* line 27 once all are done.
SetSampleRateStep ==
    /\ cpc = "s24"
    /\ IF cIndex < NUM_OUTPUTS
       THEN /\ envs' = [envs EXCEPT ![cIndex + 1].rate = cRate]
            /\ cIndex' = cIndex + 1
            /\ UNCHANGED <<cpc, cRate>>
       ELSE /\ cpc' = "idle"
            /\ cIndex' = 0
            /\ cRate' = 0
            /\ UNCHANGED envs
    /\ UNCHANGED <<fftMutex, apc, buffer, outputs, bufferFreed,
                   outputsFreed, block, bufferNumber, index, calls>>
    /\ UNCHANGED <<bandVars, accVars, playVars, anaVars>>

\* line 29: reset() is called.
ResetCall ==
    /\ cpc = "idle"
    /\ cpc' = "s30"
    /\ cIndex' = 0
    /\ UNCHANGED <<fftMutex, apc, buffer, outputs, envs, bufferFreed,
                   outputsFreed, block, bufferNumber, index, cRate, calls>>
    /\ UNCHANGED <<bandVars, accVars, playVars, anaVars>>

\* lines 30-32: env.reset() for the next follower, or line 33 once all are
\* done.
ResetStep ==
    /\ cpc = "s30"
    /\ IF cIndex < NUM_OUTPUTS
       THEN /\ envs' = [envs EXCEPT ![cIndex + 1].level = 0]
            /\ cIndex' = cIndex + 1
            /\ UNCHANGED cpc
       ELSE /\ cpc' = "idle"
            /\ cIndex' = 0
            /\ UNCHANGED envs
    /\ UNCHANGED <<fftMutex, apc, buffer, outputs, bufferFreed,
                   outputsFreed, block, bufferNumber, index, cRate, calls>>
    /\ UNCHANGED <<bandVars, accVars, playVars, anaVars>>

\* line 17: the destructor is called.
DestructorCall ==
    /\ cpc = "idle"
    /\ cpc' = "d18"
    /\ UNCHANGED <<fftMutex, apc, buffer, outputs, envs, bufferFreed,
                   outputsFreed, block, bufferNumber, index, cIndex, cRate,
                   calls>>
    /\ UNCHANGED <<bandVars, accVars, playVars, anaVars>>

\* A faulty variant of DestructorLock: the destructor goes on without waiting for
\* the lock to be free.
DestructorLock_NoWait ==
    /\ cpc = "d18"
    /\ fftMutex' = "control"
    /\ cpc' = "d19"
    /\ UNCHANGED <<apc, buffer, outputs, envs, bufferFreed, outputsFreed,
                   block, bufferNumber, index, cIndex, cRate, calls>>
    /\ UNCHANGED <<bandVars, accVars, playVars, anaVars>>

\* line 18: WECore::AudioSpinLock lock(_fftMutex): spins until the lock is
\* free, then holds it.
DestructorLock ==
    /\ cpc = "d18"
    /\ fftMutex = "free"
    /\ fftMutex' = "control"
    /\ cpc' = "d19"
    /\ UNCHANGED <<apc, buffer, outputs, envs, bufferFreed, outputsFreed,
                   block, bufferNumber, index, cIndex, cRate, calls>>
    /\ UNCHANGED <<bandVars, accVars, playVars, anaVars>>

\* line 19: delete[] _buffer
DestructorFreeBuffer ==
    /\ cpc = "d19"
    /\ bufferFreed' = TRUE
    /\ cpc' = "d20"
    /\ UNCHANGED <<fftMutex, apc, buffer, outputs, envs, outputsFreed,
                   block, bufferNumber, index, cIndex, cRate, calls>>
    /\ UNCHANGED <<bandVars, accVars, playVars, anaVars>>

\* line 20: delete[] _outputs
DestructorFreeOutputs ==
    /\ cpc = "d20"
    /\ outputsFreed' = TRUE
    /\ cpc' = "d21"
    /\ UNCHANGED <<fftMutex, apc, buffer, outputs, envs, bufferFreed,
                   block, bufferNumber, index, cIndex, cRate, calls>>
    /\ UNCHANGED <<bandVars, accVars, playVars, anaVars>>

\* line 21: the lock object goes out of scope and releases; the analyzer
\* is gone.
DestructorUnlock ==
    /\ cpc = "d21"
    /\ fftMutex' = "free"
    /\ cpc' = "dead"
    /\ UNCHANGED <<apc, buffer, outputs, envs, bufferFreed, outputsFreed,
                   block, bufferNumber, index, cIndex, cRate, calls>>
    /\ UNCHANGED <<bandVars, accVars, playVars, anaVars>>

\* ------------------------------------------------------------------------
\* PluginSplitterMultiband::prepareToPlay  (lines 155-161)
\* ------------------------------------------------------------------------

\* lines 155-157: prepareToPlay(sampleRate, samplesPerBlock) is called; the
\* crossover is reset and given the sample rate, which changes nothing the
\* file reads back.
PrepareToPlayCall(rate) ==
    /\ cpc = "idle"
    /\ cpc' = "p158"
    /\ cRate' = rate
    /\ UNCHANGED <<fftMutex, apc, buffer, outputs, envs, bufferFreed,
                   outputsFreed, block, bufferNumber, index, cIndex, calls>>
    /\ UNCHANGED <<bandVars, accVars, playVars, anaVars>>

\* line 158: _fftProvider.reset(), lines 29-33: every follower is reset;
\* _buffer and _outputs are not written.
PrepareToPlayReset ==
    /\ cpc = "p158"
    /\ envs' = [i \in 1..NUM_OUTPUTS |-> [envs[i] EXCEPT !.level = 0]]
    /\ cpc' = "p159"
    /\ UNCHANGED <<fftMutex, apc, buffer, outputs, bufferFreed,
                   outputsFreed, block, bufferNumber, index, cIndex, cRate,
                   calls>>
    /\ UNCHANGED <<bandVars, accVars, playVars, anaVars>>

\* line 159: _fftProvider.setSampleRate(sampleRate), lines 23-27.
PrepareToPlaySetSampleRate ==
    /\ cpc = "p159"
    /\ envs' = [i \in 1..NUM_OUTPUTS |-> [envs[i] EXCEPT !.rate = cRate]]
    /\ cpc' = "p160"
    /\ UNCHANGED <<fftMutex, apc, buffer, outputs, bufferFreed,
                   outputsFreed, block, bufferNumber, index, cIndex, cRate,
                   calls>>
    /\ UNCHANGED <<bandVars, accVars, playVars, anaVars>>

\* line 160: PluginSplitter::prepareToPlay(sampleRate, samplesPerBlock): the
\* base class prepares every chain of the registry.
PrepareToPlayBase ==
    /\ cpc = "p160"
    /\ prepared' = prepared \cup ChainsOf(chains)
    /\ cpc' = "p161"
    /\ UNCHANGED <<chains, numBands, bandChain, destroyed, listening,
                   nextChain, pc, inHook, success, ret, latencyChanged, ub,
                   restored>>
    /\ UNCHANGED <<histVars, restoreVars, audioVars>>
    /\ UNCHANGED <<fftMutex, apc, buffer, outputs, envs, bufferFreed,
                   outputsFreed, block, bufferNumber, index, cIndex, cRate,
                   calls>>
    /\ UNCHANGED <<accVars, playVars, anaVars>>

\* line 161: prepareToPlay returns.
PrepareToPlayReturn ==
    /\ cpc = "p161"
    /\ cpc' = "idle"
    /\ cRate' = 0
    /\ UNCHANGED <<fftMutex, apc, buffer, outputs, envs, bufferFreed,
                   outputsFreed, block, bufferNumber, index, cIndex, calls>>
    /\ UNCHANGED <<bandVars, accVars, playVars, anaVars>>

PrepareToPlayStep ==
    \/ \E rate \in SampleRates : PrepareToPlayCall(rate)
    \/ PrepareToPlayReset
    \/ PrepareToPlaySetSampleRate
    \/ PrepareToPlayBase
    \/ PrepareToPlayReturn

\* ------------------------------------------------------------------------
\* PluginSplitterMultiband::processBlock  (lines 163-166), both its steps
\* ------------------------------------------------------------------------

\* lines 163-164, 36-37: processBlock(buffer, midiMessages) is called and
\* hands its buffer to the analyzer, which tries the lock.
ProcessBlockCall(n, kind) ==
    /\ ppc = "idle"
    /\ TryLock(MakeBlock(n, kind))
    /\ given' = MakeBlock(n, kind)
    /\ crossed' = <<>>
    /\ ppc' = "p164"
    /\ UNCHANGED <<bandVars, accVars>>

\* line 165: the analyzer has returned; _crossover.processBlock(buffer) is
\* handed the same buffer and routes every band to its chain.
ProcessBlockCrossover ==
    /\ ppc = "p164"
    /\ apc = "idle"
    /\ crossed' = block
    /\ routed' = RoutedNow
    /\ pbAt' = pc
    /\ ppc' = "p165"
    /\ UNCHANGED <<chains, numBands, bandChain, destroyed, prepared,
                   listening, nextChain, pc, inHook, success, ret,
                   latencyChanged, ub, restored>>
    /\ UNCHANGED <<histVars, restoreVars>>
    /\ UNCHANGED given
    /\ UNCHANGED <<fftVars, accVars, anaVars>>

\* line 166: processBlock returns.
ProcessBlockReturn ==
    /\ ppc = "p165"
    /\ routed' = <<>>
    /\ pbAt' = "none"
    /\ ppc' = "idle"
    /\ UNCHANGED <<chains, numBands, bandChain, destroyed, prepared,
                   listening, nextChain, pc, inHook, success, ret,
                   latencyChanged, ub, restored>>
    /\ UNCHANGED <<histVars, restoreVars>>
    /\ UNCHANGED <<given, crossed>>
    /\ UNCHANGED <<fftVars, accVars, anaVars>>

AudioStep ==
    \/ \E n \in 0..MaxBlock, kind \in BlockKinds : AudioTryLock(n, kind)
    \/ AudioChunk
    \/ AudioTransform
    \/ AudioEnv
    \/ AudioEnvDone
    \/ AudioUnlock
    \/ AudioSkip

ControlStep ==
    \/ \E rate \in SampleRates : SetSampleRateCall(rate)
    \/ SetSampleRateStep
    \/ ResetCall
    \/ ResetStep
    \/ DestructorCall
    \/ DestructorLock
    \/ DestructorFreeBuffer
    \/ DestructorFreeOutputs
    \/ DestructorUnlock

\* ------------------------------------------------------------------------
\* Specifications
\* ------------------------------------------------------------------------

AddBandStep ==
    \/ AddBandCall
    \/ AddBandGuard
    \/ AddBandEmplace
    \/ AddBandCrossover
    \/ AddBandPrepare
    \/ AddBandSetChain
    \/ AddBandListen
    \/ AddBandFinish

RemoveBandStep ==
    \/ RemoveBandCall
    \/ RemoveBandGuard
    \/ RemoveBandCrossover
    \/ RemoveBandUnlisten
    \/ RemoveBandErase
    \/ RemoveBandFinish

\* A persisted list holds the chains of some registry, which has at most
\* MAX_BANDS slots.
PersistedCounts == 0..MAX_BANDS

RestoreStep ==
    \/ \E k \in PersistedCounts : RestoreBegin(k)
    \/ OnChainRestoredCall
    \/ OnChainRestoredAddBand
    \/ OnChainRestoredBind
    \/ OnChainRestoredReturn
    \/ RestoreEnd

\* Every operation of the splitter, a processBlock between any two steps.
Next ==
    \/ AddBandStep
    \/ RemoveBandStep
    \/ RestoreStep
    \/ SplitterProcessBlock
    \/ SplitterProcessBlockReturn

Spec == Init /\ [][Next]_vars

\* A constructed splitter on which only addBand() and removeBand() are
\* called (and processBlock).
NextAddRemove ==
    \/ AddBandStep
    \/ RemoveBandStep
    \/ SplitterProcessBlock
    \/ SplitterProcessBlockReturn

SpecAddRemove == Init /\ [][NextAddRemove]_vars

\* The same calls on a splitter made by the second constructor, every band
\* of which starts with its chain.
InitGiven == Construct2 /\ ConstructFFT

SpecGiven == InitGiven /\ [][NextAddRemove]_vars


FrequencyStep ==
    \/ \E idx \in BoundaryIndices, val \in Frequencies :
           SetCrossoverFrequency(idx, val)
    \/ \E idx \in BoundaryIndices : GetCrossoverFrequency(idx)

SoloStep ==
    \/ \E chainNumber \in BandIndices, val \in BOOLEAN :
           SetChainSolo(chainNumber, val)
    \/ \E chainNumber \in BandIndices : GetChainSolo(chainNumber)

\* A splitter whose analysis window happened to be allocated zeroed.
InitZeroed == Init /\ \A i \in 1..FFT_SIZE : buffer[i] = 0

\* The control thread: structural calls and accessor calls, one after the
\* other.
NextFrequency ==
    \/ AddBandStep
    \/ RemoveBandStep
    \/ FrequencyStep

SpecFrequency == InitZeroed /\ [][NextFrequency]_vars

NextSolo ==
    \/ AddBandStep
    \/ RemoveBandStep
    \/ SoloStep

SpecSolo == InitZeroed /\ [][NextSolo]_vars

\* The analyzer with its two threads.
NextFFT ==
    \/ AudioStep
    \/ ControlStep

\* The analyzer of a splitter made by the first constructor.
InitFFT == Construct1 /\ ConstructFFT

\* The analyzer as the splitter drives it: prepareToPlay from the control
\* thread next to the analyzer's own operations.
NextPrepare ==
    \/ AudioStep
    \/ ControlStep
    \/ PrepareToPlayStep

SpecPrepare == InitFFT /\ [][NextPrepare]_vars

\* The audio callback: processBlock with both its steps, the analyzer's
\* part statement by statement, while the control thread does as it likes
\* with the analyzer.
PlaybackStep ==
    \/ \E n \in 0..MaxBlock, kind \in BlockKinds : ProcessBlockCall(n, kind)
    \/ AudioChunk
    \/ AudioTransform
    \/ AudioEnv
    \/ AudioEnvDone
    \/ AudioUnlock
    \/ AudioSkip
    \/ ProcessBlockCrossover
    \/ ProcessBlockReturn

NextPlayback ==
    \/ PlaybackStep
    \/ ControlStep

SpecPlayback == InitFFT /\ [][NextPlayback]_vars

SpecFFT == InitFFT /\ [][NextFFT]_vars

\* The audio thread is scheduled: it always gets to take its next step.  No
\* such thing is assumed of the control thread, which may hold the lock
\* for ever.
SpecFFTFair == SpecFFT /\ WF_vars(AudioStep)


\* ------------------------------------------------------------------------
\* Properties of the splitter
\* ------------------------------------------------------------------------

\* Number of addBand() calls that have succeeded when only addBand and
\* removeBand run: each constructs exactly one chain.
AddsSoFar == nextChain - 1 - initialCount

\* C1. From a constructed splitter, after every addBand() or removeBand()
\* call the registry's chain count equals the crossover's band count, and
\* both equal the initial count plus the successful addBand calls minus the
\* successful removeBand calls.
C1_CountsTrackCalls ==
    pc = "idle" =>
        /\ RegistrySize = numBands
        /\ numBands = initialCount + netAdds

\* Three bands were added and two removed.
C1_Witness ==
    /\ pc = "idle"
    /\ AddsSoFar = 3
    /\ netAdds = 1

\* C2. addBand() at MAX_BANDS and removeBand() at MIN_BANDS return false
\* and change nothing: not the band count, the registry, the bands' chain
\* pointers, the listener registrations, and the latency is not recomputed.
C2_FailedCallMutatesNothing ==
    [][ ( /\ pc' # pc
          /\ \/ pc = "a101" /\ numBands = MAX_BANDS
             \/ pc = "r121" /\ numBands = MIN_BANDS )
        => ( /\ ret' = "false"
             /\ pc' \in {"idle", "c184"}
             /\ latencyChanged' = FALSE
             /\ UNCHANGED <<chains, numBands, bandChain, listening,
                            prepared, destroyed, nextChain>> ) ]_vars

\* addBand() has just returned false on a splitter with MAX_BANDS bands.
C2_Witness ==
    /\ pc = "idle"
    /\ ret = "false"
    /\ numBands = MAX_BANDS
    /\ ~latencyChanged

\* C3. The crossover band count stays within [MIN_BANDS, MAX_BANDS] and the
\* registry never holds more than MAX_BANDS chains.
C3_CountsWithinBounds ==
    /\ numBands >= MIN_BANDS
    /\ numBands <= MAX_BANDS
    /\ RegistrySize <= MAX_BANDS

\* C4. In removeBand() the band count shrinks first, then the listener is
\* removed, then the chain is destroyed; a processBlock placed between two
\* of these steps hands audio to no destroyed chain.
C4_NoAudioToDestroyedChain ==
    /\ pc \in {"r124", "r125"} /\ Len(chains) > 0 => LastChain \notin destroyed
    /\ pc = "r125" /\ Len(chains) > 0 => LastChain \notin listening
    /\ pbAt \in {"r124", "r125"} =>
           \A i \in 1..Len(routed) : routed[i] \notin destroyed

\* C5. A restore that starts with the crossover at its default band count
\* and K persisted chains ends with K chains in the registry, the i-th
\* restored chain owned by slot i and bound to band i.
C5_RestoreFromDefault ==
    (restoring /\ restoreLeft = 0 /\ pc = "idle"
               /\ restoreN = DEFAULT_NUM_CHAINS) =>
        /\ RegistrySize = restoreK
        /\ Len(restored) = restoreK
        /\ \A i \in 0..(restoreK - 1) :
               /\ chains[i + 1].chain = restored[i + 1]
               /\ bandChain[i] = restored[i + 1]

\* Four chains were restored into a splitter that had two bands.
C5_Witness ==
    /\ restoring /\ restoreLeft = 0 /\ pc = "idle"
    /\ restoreN = DEFAULT_NUM_CHAINS
    /\ restoreK = MAX_BANDS
    /\ Len(restored) = MAX_BANDS

\* C6. At the end of a complete restore the registry's size equals the
\* crossover's band count, whatever the band count before the restore and
\* the number of persisted chains.
C6_RestoreEndsAligned ==
    (restoring /\ restoreLeft = 0 /\ pc = "idle") => RegistrySize = numBands

\* C13. In addBand() the new chain is prepared and bound to the new band
\* before that band can receive audio: a processBlock placed between any
\* two statements of addBand() hands every band in [0, numBands) to a chain
\* that exists, is not destroyed and, when addBand() made it, is prepared.
C13_NewBandReadyBeforeAudio ==
    pbAt \in {"a101", "a103", "a104", "a107", "a108", "a110", "a111"} =>
        \A i \in 1..Len(routed) :
            /\ routed[i] # NoChain
            /\ routed[i] \notin destroyed
            /\ routed[i] > initialCount => routed[i] \in prepared

\* C17 as stated. In case (b) of _onChainRestored() one slot is appended,
\* the band count is unchanged and the new chain becomes the processor of
\* the crossover's last band, numBands - 1.
C17_BindsLastBand ==
    [][ (pc = "c173" /\ pc' = "c184") =>
            /\ Len(chains') = Len(chains) + 1
            /\ numBands' = numBands
            /\ bandChain'[numBands - 1] = chains'[Len(chains')].chain ]_vars

\* C17, amended. In case (b) of _onChainRestored() one slot is appended,
\* the band count is unchanged and the new chain becomes the processor of
\* the band whose index is the new slot's index, _chains.size() - 1 after
\* the append; no other band's processor changes.
C17_BindsBandOfNewSlot ==
    [][ (pc = "c173" /\ pc' = "c184") =>
            /\ Len(chains') = Len(chains) + 1
            /\ SubSeq(chains', 1, Len(chains)) = chains
            /\ numBands' = numBands
            /\ bandChain' = [bandChain EXCEPT
                                ![Len(chains') - 1] = chains'[Len(chains')].chain]
      ]_vars

\* Case (b) has just run on a three-band crossover whose registry was
\* empty: the new slot is slot 0, the last band is band 2.
C17_Witness ==
    /\ pc = "c184" /\ ~inHook
    /\ numBands = 3
    /\ Len(chains) = 1
    /\ bandChain[0] = chains[1].chain
    /\ bandChain[2] # chains[1].chain

\* C18. After every completed addBand(), removeBand() or complete restore,
\* every band in [0, numBands) has as its processor the chain owned by the
\* registry slot of the same index, and no band points at a destroyed
\* chain.
C18_BandsBoundToTheirSlots ==
    ( /\ pc = "idle" /\ ub = "none"
      /\ \/ ~restoring /\ ret # "none"
         \/ restoring /\ restoreLeft = 0 ) =>
        \A i \in 0..(numBands - 1) :
            /\ i < Len(chains)
            /\ bandChain[i] = chains[i + 1].chain
            /\ bandChain[i] \notin destroyed

\* C19. Between calls, every chain of the registry that addBand() or
\* _onChainRestored() made has been prepared and has the splitter as its
\* listener; and in removeBand() the splitter is no longer the listener of
\* the last chain when that chain is about to be destroyed.
C19_MadeChainsPreparedAndHeard ==
    /\ (pc = "idle" /\ ub = "none") =>
           \A i \in 1..Len(chains) :
               chains[i].chain > initialCount =>
                   /\ chains[i].chain \in prepared
                   /\ chains[i].chain \in listening
    /\ (pc = "r125" /\ ub = "none" /\ Len(chains) > 0) =>
           LastChain \notin listening

\* ------------------------------------------------------------------------
\* Properties of the analyzer
\* ------------------------------------------------------------------------

\* C7. A processBlock whose try-lock finds _fftMutex held does nothing: the
\* call goes straight to its return and neither of its steps changes the
\* window, the bin outputs, the envelope followers or the lock.
C7_ContendedCallIsNoOp ==
    [][ /\ (apc = "idle" /\ apc' # "idle" /\ fftMutex # "free") =>
               /\ apc' = "skip"
               /\ UNCHANGED <<buffer, outputs, envs, fftMutex>>
        /\ (apc = "skip" /\ apc' # "skip") =>
               /\ apc' = "idle"
               /\ UNCHANGED <<buffer, outputs, envs, fftMutex>> ]_vars

\* A call was skipped because the destructor held the lock, after an
\* earlier call had left something in the bin outputs.
C7_Witness ==
    /\ apc = "skip"
    /\ fftMutex = "control"
    /\ \E i \in 1..NUM_OUTPUTS : outputs[i] > 0

\* C8. reset() and setSampleRate() hold _fftMutex while they run, so their
\* updates of the envelope followers never overlap an analysis pass of
\* processBlock.
C8_ResetExcludesAnalysis ==
    ~(cpc \in {"s24", "s30"} /\ apc \in {"loop", "fft", "env"})

\* C9. Every processBlock call returns, whatever the other thread does with
\* the lock, including holding it for ever.
C9_ProcessBlockReturns == (apc # "idle") ~> (apc = "idle")

\* A call found the lock held by the destructor, which has freed nothing
\* yet.
C9_Witness ==
    /\ apc = "skip"
    /\ cpc = "d19"

\* C10. The destructor holds _fftMutex at the two delete[] statements, and
\* no processBlock is inside its locked section once a buffer is freed.
C10_NoAnalysisOnFreedBuffers ==
    /\ cpc \in {"d19", "d20", "d21"} => fftMutex = "control"
    /\ (bufferFreed \/ outputsFreed) => apc \notin {"loop", "fft", "env"}

\* The destructor waits for the lock while an analysis pass is running.
C10_Witness ==
    /\ cpc = "d18"
    /\ apc = "env"
    /\ fftMutex = "audio"

\* ------------------------------------------------------------------------
\* Properties of the accessors
\* ------------------------------------------------------------------------

C12_SoloTouchesOnlyItsFlag ==
    [][ /\ (lastSet'.op = "solo" /\ got'.op = "none") =>
               /\ bandSoloed'[lastSet'.index] = lastSet'.val
               /\ \A b \in BandIndices \ {lastSet'.index} :
                      bandSoloed'[b] = bandSoloed[b]
               /\ UNCHANGED <<chains, numBands, bandChain>>
        /\ ( /\ lastSet.op = "solo"
             /\ got'.op = "solo"
             /\ got'.index = lastSet.index ) => got'.val = lastSet.val ]_vars

\* Band 2 of a three-band splitter was soloed while band 0 already was, and
\* its flag read back.
C12_Witness ==
    /\ lastSet.op = "solo" /\ lastSet.index = 2 /\ lastSet.val = TRUE
    /\ got.op = "solo" /\ got.index = 2 /\ got.val = TRUE
    /\ bandSoloed[0] /\ ~bandSoloed[1]
    /\ \A i \in 1..Len(chains) : ~chains[i].isSoloed

\* ------------------------------------------------------------------------
\* Properties of the analysis window and of playback
\* ------------------------------------------------------------------------

\* The mono sample of a stereo sample: the average of left and right.
Mono(sample) == (sample[1] + sample[2]) \div 2

\* The smallest number of windows that hold n samples.
CeilOfWindows(n) ==
    CHOOSE k \in 0..n : /\ k * FFT_SIZE >= n
                        /\ \A j \in 0..(k - 1) : j * FFT_SIZE < n

\* C14. For a block of n samples, 0 < n <= FFT_SIZE, the window handed to
\* the transform is the previous window shifted left by n, its last
\* FFT_SIZE - n samples in order, followed by the n new mono samples.
C14_WindowIsShiftedLeft ==
    (apc = "fft" /\ Len(block) <= FFT_SIZE) =>
        LET n == Len(block)
        IN  buffer = [i \in 1..FFT_SIZE |->
                         IF i <= FFT_SIZE - n
                         THEN prevBuffer[i + n]
                         ELSE Mono(block[i - (FFT_SIZE - n)])]

\* C15. A processBlock that holds the lock runs ceil(n / FFT_SIZE) passes
\* over consecutive chunks in input order, every input sample in exactly
\* one chunk; a chunk of FFT_SIZE samples replaces the whole window, only
\* the last chunk is shorter, and a block of no samples runs no pass and
\* leaves the window and the bin outputs as they were.
C15_ChunkedPasses ==
    [][ /\ ( /\ apc' = "loop"
             /\ ~(bufferNumber' < NumBuffersRequired(Len(block'))) ) =>
               /\ passes' = CeilOfWindows(Len(block'))
               /\ consumed' = [j \in 1..Len(block') |-> j]
        /\ apc' = "fft" =>
               LET count == Len(consumed') - bufferNumber' * FFT_SIZE
               IN  /\ count >= 1 /\ count <= FFT_SIZE
                   /\ passes' = bufferNumber'
                   /\ count = FFT_SIZE =>
                          \A i \in 1..FFT_SIZE :
                              buffer'[i] =
                                  Mono(block'[bufferNumber' * FFT_SIZE + i])
                   /\ count < FFT_SIZE => Len(consumed') = Len(block')
        /\ (apc = "idle" /\ apc' = "loop" /\ Len(block') = 0) =>
               UNCHANGED <<buffer, outputs>>
        /\ (apc = "loop" /\ Len(block) = 0) =>
               /\ apc' \in {"loop", "idle"}
               /\ UNCHANGED <<buffer, outputs>> ]_vars

\* A block one sample longer than the window has been through its two
\* passes.
C15_Witness ==
    /\ apc = "loop"
    /\ Len(block) = FFT_SIZE + 1
    /\ bufferNumber = 2
    /\ passes = 2
    /\ consumed = <<1, 2, 3, 4, 5>>

\* C16. When prepareToPlay returns, every element of the analysis window
\* and every bin output is zero.
C16_PrepareZeroesAnalyzer ==
    cpc = "p161" =>
        /\ \A i \in 1..FFT_SIZE : buffer[i] = 0
        /\ \A i \in 1..NUM_OUTPUTS : outputs[i] = 0

\* C20. In processBlock the analyzer comes first and only reads the buffer,
\* with or without the lock: while it runs the buffer holds what the
\* caller passed and the crossover has not been called, and the crossover
\* is then handed exactly those samples.
C20_AnalyzerLeavesBufferAlone ==
    /\ ppc = "p164" =>
           /\ block = given
           /\ pbAt = "none"
    /\ ppc = "p165" =>
           /\ apc = "idle"
           /\ crossed = given

\* The crossover was handed a tone longer than the window, after the
\* analyzer had taken the lock and put the tone's spectrum in its outputs.
C20_Witness ==
    /\ ppc = "p165"
    /\ Len(given) > FFT_SIZE
    /\ crossed = given
    /\ given[1] # <<0, 0>>
    /\ outputs[1] > 0
    /\ fftMutex = "free"

=============================================================================
